---- MODULE Spec2Model ----
(***************************************************************************)
(* Model of configs/validate_schemas.py: load one JSON Schema, validate a  *)
(* fixed list of five mirror configuration files against it, print a       *)
(* report and exit with status 0 or 1.                                     *)
(*                                                                         *)
(* The file system is the environment: every access the script makes       *)
(* (open of the schema file, exists() of a target, open of a target) draws *)
(* what it finds from a small set, so a file may change between the        *)
(* existence check and the open.  File texts are token sequences; they are *)
(* parsed by a recursive-descent parser (json.load) and validated by an    *)
(* interpreter of the keywords "type", "required" and "properties"         *)
(* (jsonschema.validate).  Python exceptions are class names, matched      *)
(* against except clauses through the class hierarchy.                     *)
(***************************************************************************)
EXTENDS Integers, Sequences, FiniteSets, TLC

VARIABLES pc, schema, idx, results, output, retval, exitStatus, fsLog

vars == <<pc, schema, idx, results, output, retval, exitStatus, fsLog>>

----------------------------------------------------------------------------
(* Module-level constants of the script.                                   *)

SCHEMA_FILE == "ToolsConfiguration.schema.json"

MIRROR_FILES ==
  <<"brew_mirror.json", "maven_mirror.json", "npm_mirror.json",
    "orbstack_mirror.json", "python_pip.json">>

----------------------------------------------------------------------------
(* Python exception classes and isinstance() on them.                      *)

ExcParent ==
  [ValidationError    |-> "Exception",
   SchemaError        |-> "Exception",
   JSONDecodeError    |-> "ValueError",
   UnicodeDecodeError |-> "ValueError",
   ValueError         |-> "Exception",
   FileNotFoundError  |-> "OSError",
   PermissionError    |-> "OSError",
   OSError            |-> "Exception",
   Exception          |-> "BaseException"]

RECURSIVE IsInstance(_, _)
IsInstance(exc, cls) ==
  \/ exc = cls
  \/ exc \in DOMAIN ExcParent /\ IsInstance(ExcParent[exc], cls)

(* The outcome of a call: a value, or a raised exception with its str().   *)
Returned(v) == [exc |-> "None", msg |-> <<>>, val |-> v]
Raised(cls, m, v) == [exc |-> cls, msg |-> m, val |-> v]

----------------------------------------------------------------------------
(* JSON values.                                                            *)

(* A value is a record of one shape; an object keeps its members as a     *)
(* sequence of <<key, value>> pairs in insertion order, as a Python dict.  *)
JStr(s) == [type |-> "string", str |-> s, members |-> <<>>, items |-> <<>>]
JNum(s) == [type |-> "number", str |-> s, members |-> <<>>, items |-> <<>>]
JObj(m) == [type |-> "object", str |-> "", members |-> m, items |-> <<>>]
JArr(xs) == [type |-> "array", str |-> "", members |-> <<>>, items |-> xs]

Has(obj, k) == \E i \in DOMAIN obj.members : obj.members[i][1] = k
Get(obj, k) ==
  obj.members[CHOOSE i \in DOMAIN obj.members : obj.members[i][1] = k][2]
(* d[k] = v: a key already present keeps its position. *)
Put(m, k, v) ==
  IF \E i \in DOMAIN m : m[i][1] = k
  THEN [i \in DOMAIN m |-> IF m[i][1] = k THEN <<k, v>> ELSE m[i]]
  ELSE Append(m, <<k, v>>)

(* Tokens of a JSON text: punctuation, string literals, number literals.   *)
Punct == {"{", "}", "[", "]", ":", ","}
NumToks == {"123"}
IsStrTok(t) == t \notin Punct /\ t \notin NumToks

----------------------------------------------------------------------------
(* json.load: a recursive-descent parser over the token sequence.  A parse *)
(* step returns the value and the position after it, or fails at a token   *)
(* position (JSONDecodeError carries that position).                        *)

PosNames == <<"col 1", "col 2", "col 3", "col 4", "col 5", "col 6", "col 7",
              "col 8", "col 9", "col 10", "col 11", "col 12", "col 13",
              "col 14", "col 15", "col 16", "col 17", "col 18", "col 19",
              "col 20", "col 21", "col 22", "col 23", "col 24", "col 25">>

ParseOk(v, n) == [ok |-> TRUE, val |-> v, next |-> n]
ParseFail(p) == [ok |-> FALSE, val |-> JStr(""), next |-> p]

RECURSIVE ParseValue(_, _), ParseMembers(_, _, _), ParseItems(_, _, _)

ParseValue(t, p) ==
  IF p > Len(t) THEN ParseFail(p)
  ELSE IF t[p] \in NumToks THEN ParseOk(JNum(t[p]), p + 1)
  ELSE IF t[p] = "{" THEN
    IF p + 1 <= Len(t) /\ t[p + 1] = "}" THEN ParseOk(JObj(<<>>), p + 2)
    ELSE ParseMembers(t, p + 1, <<>>)
  ELSE IF t[p] = "[" THEN
    IF p + 1 <= Len(t) /\ t[p + 1] = "]" THEN ParseOk(JArr(<<>>), p + 2)
    ELSE ParseItems(t, p + 1, <<>>)
  ELSE IF IsStrTok(t[p]) THEN ParseOk(JStr(t[p]), p + 1)
  ELSE ParseFail(p)

ParseMembers(t, p, acc) ==
  IF p > Len(t) \/ ~IsStrTok(t[p]) THEN ParseFail(p)
  ELSE IF p + 1 > Len(t) \/ t[p + 1] # ":" THEN ParseFail(p + 1)
  ELSE LET v == ParseValue(t, p + 2) IN
    IF ~v.ok THEN v
    ELSE IF v.next > Len(t) THEN ParseFail(v.next)
    ELSE IF t[v.next] = "}" THEN
      ParseOk(JObj(Put(acc, t[p], v.val)), v.next + 1)
    ELSE IF t[v.next] = "," THEN
      ParseMembers(t, v.next + 1, Put(acc, t[p], v.val))
    ELSE ParseFail(v.next)

ParseItems(t, p, acc) ==
  LET v == ParseValue(t, p) IN
    IF ~v.ok THEN v
    ELSE IF v.next > Len(t) THEN ParseFail(v.next)
    ELSE IF t[v.next] = "]" THEN
      ParseOk(JArr(Append(acc, v.val)), v.next + 1)
    ELSE IF t[v.next] = "," THEN
      ParseItems(t, v.next + 1, Append(acc, v.val))
    ELSE ParseFail(v.next)

(* json.load(f) on a file whose decoded text is t. *)
json_load(t) ==
  LET r == ParseValue(t, 1) IN
    IF r.ok /\ r.next = Len(t) + 1 THEN Returned(r.val)
    ELSE IF r.ok THEN
      Raised("JSONDecodeError", <<"Extra data", PosNames[r.next]>>, JStr(""))
    ELSE
      Raised("JSONDecodeError", <<"Expecting value", PosNames[r.next]>>,
             JStr(""))

----------------------------------------------------------------------------
(* jsonschema.validate(instance, schema): check_schema, then raise the     *)
(* best match of iter_errors.  The keywords interpreted are "type",        *)
(* "required" and "properties"; any other keyword is ignored.              *)

SimpleTypes ==
  {"string", "number", "integer", "object", "array", "boolean", "null"}

RECURSIVE check_schema(_)
check_schema(s) ==
  /\ s.type = "object"
  /\ Has(s, "type") =>
       Get(s, "type").type = "string" /\ Get(s, "type").str \in SimpleTypes
  /\ Has(s, "required") =>
       /\ Get(s, "required").type = "array"
       /\ \A i \in DOMAIN Get(s, "required").items :
            Get(s, "required").items[i].type = "string"
  /\ Has(s, "properties") =>
       /\ Get(s, "properties").type = "object"
       /\ \A i \in DOMAIN Get(s, "properties").members :
            check_schema(Get(s, "properties").members[i][2])

IsType(inst, t) ==
  IF t \in {"number", "integer"} THEN inst.type = "number" ELSE inst.type = t

Repr(inst) == IF inst.type \in {"string", "number"} THEN inst.str ELSE inst.type

SchemaErr(path, message) == [path |-> path, message |-> message]

RECURSIVE iter_errors(_, _, _), KeywordErrors(_, _, _, _),
          RequiredErrors(_, _, _, _), PropertiesErrors(_, _, _, _)

(* The errors of the keywords of schema s from its i-th member on. *)
KeywordErrors(s, i, inst, path) ==
  IF i > Len(s.members) THEN <<>>
  ELSE
    LET k == s.members[i][1]
        v == s.members[i][2]
        here ==
          IF k = "type" THEN
            IF IsType(inst, v.str) THEN <<>>
            ELSE <<SchemaErr(path, <<Repr(inst), "is not of type", v.str>>)>>
          ELSE IF k = "required" /\ inst.type = "object" THEN
            RequiredErrors(v.items, 1, inst, path)
          ELSE IF k = "properties" /\ inst.type = "object" THEN
            PropertiesErrors(v.members, 1, inst, path)
          ELSE <<>>
    IN here \o KeywordErrors(s, i + 1, inst, path)

RequiredErrors(req, i, inst, path) ==
  IF i > Len(req) THEN <<>>
  ELSE (IF Has(inst, req[i].str) THEN <<>>
        ELSE <<SchemaErr(path, <<req[i].str, "is a required property">>)>>)
       \o RequiredErrors(req, i + 1, inst, path)

PropertiesErrors(props, i, inst, path) ==
  IF i > Len(props) THEN <<>>
  ELSE (IF Has(inst, props[i][1])
        THEN iter_errors(props[i][2], Get(inst, props[i][1]),
                         Append(path, props[i][1]))
        ELSE <<>>)
       \o PropertiesErrors(props, i + 1, inst, path)

iter_errors(s, inst, path) == KeywordErrors(s, 1, inst, path)

(* best_match: the first of the errors highest in the instance. *)
best_match(errors) ==
  errors[CHOOSE i \in DOMAIN errors :
           \A j \in DOMAIN errors :
             \/ Len(errors[i].path) < Len(errors[j].path)
             \/ Len(errors[i].path) = Len(errors[j].path) /\ i <= j]

validate(instance, s) ==
  IF ~check_schema(s) THEN
    Raised("SchemaError", <<"invalid schema">>, instance)
  ELSE LET errors == iter_errors(s, instance, <<>>) IN
    IF errors = <<>> THEN Returned(instance)
    ELSE Raised("ValidationError", best_match(errors).message, instance)

----------------------------------------------------------------------------
(* What an access to the file system can find.                             *)

Absent == [st |-> "absent", text |-> <<>>]
Denied == [st |-> "denied", text |-> <<>>]
Undecodable == [st |-> "undecodable", text |-> <<>>]
Present == [st |-> "present", text |-> <<>>]
Text(t) == [st |-> "text", text |-> t]

(* {"type": "object", "required": ["registry"],
    "properties": {"registry": {"type": "string"}}} *)
SchemaRegistry ==
  <<"{", "type", ":", "object", ",", "required", ":", "[", "registry", "]",
    ",", "properties", ":", "{", "registry", ":", "{", "type", ":", "string",
    "}", "}", "}">>
(* {} accepts every instance. *)
SchemaAny == <<"{", "}">>
(* {"type": 123} is JSON but not a schema. *)
SchemaBadType == <<"{", "type", ":", "123", "}">>
(* {"type": "object"  without the closing brace. *)
SchemaUnterminated == <<"{", "type", ":", "object">>

SchemaDisk ==
  {Absent, Denied, Undecodable, Text(SchemaRegistry), Text(SchemaAny),
   Text(SchemaBadType), Text(SchemaUnterminated)}

(* {"registry": "https://example.com"} *)
TextValid == <<"{", "registry", ":", "https://example.com", "}">>
(* {"registry": 123} *)
TextNumber == <<"{", "registry", ":", "123", "}">>
(* {} *)
TextEmpty == <<"{", "}">>
(* {"registry": "https://example.com",} *)
TextTrailingComma == <<"{", "registry", ":", "https://example.com", ",", "}">>

TargetDisk ==
  {Absent, Denied, Undecodable, Text(TextValid), Text(TextNumber),
   Text(TextEmpty), Text(TextTrailingComma)}

Access(op, file, found) == [op |-> op, file |-> file, found |-> found]

----------------------------------------------------------------------------
(* The script.  Texts are given in ASCII; the original is in the comment.  *)

Banner == <<"============================================================">>
Title == <<"Mirror configuration schema validation">>
Rule == <<"------------------------------------------------------------">>
ResultsTitle == <<"Validation results:">>
MsgSchemaLoaded == <<"[v] schema loaded: ", SCHEMA_FILE>>
PrefixSchemaFailed == "[X] cannot load schema file: "
MsgPassed == <<"[OK] passed">>
PrefixValidationFailed == "[X] validation failed: "
PrefixParseError == "[X] JSON parse error: "
PrefixError == "[X] error: "
MsgMissing == <<"[!] file does not exist">>
MsgAllPassed == <<"[OK] all files passed">>
MsgSomeFailed == <<"[X] some files failed, check the errors above">>

Unbound == JStr("<unbound>")

(* with open(path, 'r', encoding='utf-8') as f: json.load(f) *)
open_json_load(found) ==
  IF found.st = "absent" THEN
    Raised("FileNotFoundError", <<"No such file or directory">>, Unbound)
  ELSE IF found.st = "denied" THEN
    Raised("PermissionError", <<"Permission denied">>, Unbound)
  ELSE IF found.st = "undecodable" THEN
    Raised("UnicodeDecodeError", <<"codec can't decode byte">>, Unbound)
  ELSE json_load(found.text)

load_schema(found) == open_json_load(found)

ValidateResult(success, message) ==
  [raised |-> FALSE, success |-> success, message |-> message]
ValidatePropagates ==
  [raised |-> TRUE, success |-> FALSE, message |-> <<>>]

(* validate_file with "except Exception" written as the first clause. *)
validate_file_ExceptionFirst(s, found) ==
  LET data == open_json_load(found)
      r == IF data.exc # "None" THEN data ELSE validate(data.val, s)
  IN IF r.exc = "None" THEN ValidateResult(TRUE, MsgPassed)
     ELSE IF IsInstance(r.exc, "Exception") THEN
       ValidateResult(FALSE, <<PrefixError>> \o r.msg)
     ELSE IF IsInstance(r.exc, "ValidationError") THEN
       ValidateResult(FALSE, <<PrefixValidationFailed>> \o r.msg)
     ELSE IF IsInstance(r.exc, "JSONDecodeError") THEN
       ValidateResult(FALSE, <<PrefixParseError>> \o r.msg)
     ELSE ValidatePropagates

(* validate_file without the final "except Exception" clause. *)
validate_file_NoCatchAll(s, found) ==
  LET data == open_json_load(found)
      r == IF data.exc # "None" THEN data ELSE validate(data.val, s)
  IN IF r.exc = "None" THEN ValidateResult(TRUE, MsgPassed)
     ELSE IF IsInstance(r.exc, "ValidationError") THEN
       ValidateResult(FALSE, <<PrefixValidationFailed>> \o r.msg)
     ELSE IF IsInstance(r.exc, "JSONDecodeError") THEN
       ValidateResult(FALSE, <<PrefixParseError>> \o r.msg)
     ELSE ValidatePropagates

(* validate_file with a clause that reports FileNotFoundError as missing. *)
validate_file_NotFoundMissing(s, found) ==
  LET data == open_json_load(found)
      r == IF data.exc # "None" THEN data ELSE validate(data.val, s)
  IN IF r.exc = "None" THEN ValidateResult(TRUE, MsgPassed)
     ELSE IF IsInstance(r.exc, "ValidationError") THEN
       ValidateResult(FALSE, <<PrefixValidationFailed>> \o r.msg)
     ELSE IF IsInstance(r.exc, "JSONDecodeError") THEN
       ValidateResult(FALSE, <<PrefixParseError>> \o r.msg)
     ELSE IF IsInstance(r.exc, "FileNotFoundError") THEN
       ValidateResult(FALSE, MsgMissing)
     ELSE IF IsInstance(r.exc, "Exception") THEN
       ValidateResult(FALSE, <<PrefixError>> \o r.msg)
     ELSE ValidatePropagates

(* The try body runs open/json.load and then validate; the first except    *)
(* clause whose class the exception is an instance of handles it.          *)
validate_file(s, found) ==
  LET data == open_json_load(found)
      r == IF data.exc # "None" THEN data ELSE validate(data.val, s)
  IN IF r.exc = "None" THEN ValidateResult(TRUE, MsgPassed)
     ELSE IF IsInstance(r.exc, "ValidationError") THEN
       ValidateResult(FALSE, <<PrefixValidationFailed>> \o r.msg)
     ELSE IF IsInstance(r.exc, "JSONDecodeError") THEN
       ValidateResult(FALSE, <<PrefixParseError>> \o r.msg)
     ELSE IF IsInstance(r.exc, "Exception") THEN
       ValidateResult(FALSE, <<PrefixError>> \o r.msg)
     ELSE ValidatePropagates

Init ==
  /\ pc = "start"
  /\ schema = Unbound
  /\ idx = 0
  /\ results = <<>>
  /\ output = <<>>
  /\ retval = -1
  /\ exitStatus = -1
  /\ fsLog = <<>>

(* main whose except clause prints the error and goes on without sys.exit. *)
MainLoadSchema_NoExit ==
  /\ pc = "start"
  /\ \E found \in SchemaDisk :
       LET r == load_schema(found) IN
         /\ fsLog' = Append(fsLog, Access("open", SCHEMA_FILE, found))
         /\ IF r.exc = "None" THEN
              /\ schema' = r.val
              /\ output' = <<Banner, Title, Banner, MsgSchemaLoaded>>
            ELSE
              /\ output' = <<Banner, Title, Banner,
                             <<PrefixSchemaFailed>> \o r.msg>>
              /\ UNCHANGED schema
  /\ idx' = 1
  /\ pc' = "loop"
  /\ UNCHANGED <<results, retval, exitStatus>>

(* main, lines 47-57: the header, then load_schema inside try/except. *)
MainLoadSchema ==
  /\ pc = "start"
  /\ \E found \in SchemaDisk :
       LET r == load_schema(found) IN
         /\ fsLog' = Append(fsLog, Access("open", SCHEMA_FILE, found))
         /\ IF r.exc = "None" THEN
              /\ schema' = r.val
              /\ output' = <<Banner, Title, Banner, MsgSchemaLoaded>>
              /\ idx' = 1
              /\ pc' = "loop"
              /\ UNCHANGED exitStatus
            ELSE IF IsInstance(r.exc, "Exception") THEN
              /\ output' = <<Banner, Title, Banner,
                             <<PrefixSchemaFailed>> \o r.msg>>
              /\ exitStatus' = 1
              /\ pc' = "exit"
              /\ UNCHANGED <<schema, idx>>
            ELSE
              /\ output' = <<Banner, Title, Banner>>
              /\ exitStatus' = 1
              /\ pc' = "crashed"
              /\ UNCHANGED <<schema, idx>>
  /\ UNCHANGED <<results, retval>>

AfterIteration == IF idx = Len(MIRROR_FILES) THEN "report" ELSE "loop"

(* The missing branch without results.append: the file is skipped. *)
MainFileMissing_NoAppend ==
  /\ pc = "loop"
  /\ fsLog' = Append(fsLog, Access("exists", MIRROR_FILES[idx], Absent))
  /\ idx' = idx + 1
  /\ pc' = AfterIteration
  /\ UNCHANGED <<schema, results, output, retval, exitStatus>>

(* The missing branch with break in place of continue. *)
MainFileMissing_Break ==
  /\ pc = "loop"
  /\ fsLog' = Append(fsLog, Access("exists", MIRROR_FILES[idx], Absent))
  /\ results' = Append(results, <<MIRROR_FILES[idx], FALSE, MsgMissing>>)
  /\ idx' = idx + 1
  /\ pc' = "report"
  /\ UNCHANGED <<schema, output, retval, exitStatus>>

(* file_path.exists() answers True or False: a stat failure of any kind is *)
(* taken as False, which is what os.path.exists does.                      *)
(* main, lines 61-65: the target does not exist. *)
MainFileMissing ==
  /\ pc = "loop"
  /\ fsLog' = Append(fsLog, Access("exists", MIRROR_FILES[idx], Absent))
  /\ results' = Append(results, <<MIRROR_FILES[idx], FALSE, MsgMissing>>)
  /\ idx' = idx + 1
  /\ pc' = AfterIteration
  /\ UNCHANGED <<schema, output, retval, exitStatus>>

(* The loop leaving at the first file that fails validation. *)
MainValidateFile_Break ==
  /\ pc = "loop"
  /\ \E found \in TargetDisk :
       LET r == validate_file(schema, found) IN
         /\ fsLog' = fsLog \o <<Access("exists", MIRROR_FILES[idx], Present),
                                 Access("open", MIRROR_FILES[idx], found)>>
         /\ results' =
              Append(results, <<MIRROR_FILES[idx], r.success, r.message>>)
         /\ idx' = idx + 1
         /\ pc' = IF r.success THEN AfterIteration ELSE "report"
  /\ UNCHANGED <<schema, output, retval, exitStatus>>

(* The loop printing each file's line as soon as the file is validated. *)
MainValidateFile_PrintsInLoop ==
  /\ pc = "loop"
  /\ \E found \in TargetDisk :
       LET r == validate_file(schema, found) IN
         /\ fsLog' = fsLog \o <<Access("exists", MIRROR_FILES[idx], Present),
                                 Access("open", MIRROR_FILES[idx], found)>>
         /\ results' =
              Append(results, <<MIRROR_FILES[idx], r.success, r.message>>)
         /\ output' = Append(output,
              <<IF r.success THEN "v" ELSE "x", MIRROR_FILES[idx]>>
                \o r.message)
         /\ idx' = idx + 1
         /\ pc' = AfterIteration
  /\ UNCHANGED <<schema, retval, exitStatus>>

(* main, lines 61-63 and 67-68: the target exists and is validated. *)
MainValidateFile ==
  /\ pc = "loop"
  /\ \E found \in TargetDisk :
       LET r == validate_file(schema, found) IN
         /\ fsLog' = fsLog \o <<Access("exists", MIRROR_FILES[idx], Present),
                                 Access("open", MIRROR_FILES[idx], found)>>
         /\ IF r.raised THEN
              /\ exitStatus' = 1
              /\ pc' = "crashed"
              /\ UNCHANGED <<results, idx>>
            ELSE
              /\ results' =
                   Append(results, <<MIRROR_FILES[idx], r.success, r.message>>)
              /\ idx' = idx + 1
              /\ pc' = AfterIteration
              /\ UNCHANGED exitStatus
  /\ UNCHANGED <<schema, output, retval>>

(* all_passed = success: the last result alone decides. *)
all_passed_Last(rs, n) == n = 0 \/ rs[n][2]

(* main, lines 74-79: all_passed after the first n results. *)
RECURSIVE all_passed(_, _)
all_passed(rs, n) ==
  IF n = 0 THEN TRUE
  ELSE IF ~rs[n][2] THEN FALSE
  ELSE all_passed(rs, n - 1)

ResultLine(r) ==
  <<IF r[2] THEN "v" ELSE "x", r[1]>> \o r[3]

(* The script calling main() without passing its value to sys.exit. *)
MainReport_NoSysExit ==
  /\ pc = "report"
  /\ LET passed == all_passed(results, Len(results)) IN
       /\ output' = output \o <<ResultsTitle, Rule>>
                      \o [i \in 1..Len(results) |-> ResultLine(results[i])]
                      \o <<Rule, IF passed THEN MsgAllPassed ELSE MsgSomeFailed>>
       /\ retval' = IF passed THEN 0 ELSE 1
  /\ exitStatus' = 0
  /\ pc' = "exit"
  /\ UNCHANGED <<schema, idx, results, fsLog>>

(* main, lines 70-88 and line 91: the report, the return value, sys.exit. *)
MainReport ==
  /\ pc = "report"
  /\ LET passed == all_passed(results, Len(results)) IN
       /\ output' = output \o <<ResultsTitle, Rule>>
                      \o [i \in 1..Len(results) |-> ResultLine(results[i])]
                      \o <<Rule, IF passed THEN MsgAllPassed ELSE MsgSomeFailed>>
       /\ retval' = IF passed THEN 0 ELSE 1
       /\ exitStatus' = retval'
  /\ pc' = "exit"
  /\ UNCHANGED <<schema, idx, results, fsLog>>

Next == MainLoadSchema \/ MainFileMissing \/ MainValidateFile \/ MainReport

Spec == Init /\ [][Next]_vars

(* The script runs to completion: nothing it does can be postponed for ever. *)
FairSpec == Spec /\ WF_vars(Next)

TypeOK ==
  /\ pc \in {"start", "loop", "report", "exit", "crashed"}
  /\ idx \in 0..(Len(MIRROR_FILES) + 1)
  /\ retval \in {-1, 0, 1}
  /\ exitStatus \in {-1, 0, 1}

----------------------------------------------------------------------------
(* Vocabulary of the properties: what the run found on disk, read off the  *)
(* log of its file-system accesses, and the kind of a recorded result, read *)
(* off its message.                                                        *)

Files == 1..Len(MIRROR_FILES)

Accesses(op, file) ==
  {k \in DOMAIN fsLog : fsLog[k].op = op /\ fsLog[k].file = file}

Checked(i) == Accesses("exists", MIRROR_FILES[i]) # {}
Opened(i) == Accesses("open", MIRROR_FILES[i]) # {}
ExistsFound(i) ==
  fsLog[CHOOSE k \in Accesses("exists", MIRROR_FILES[i]) : TRUE].found
OpenFound(i) ==
  fsLog[CHOOSE k \in Accesses("open", MIRROR_FILES[i]) : TRUE].found

SchemaOpened == Accesses("open", SCHEMA_FILE) # {}
SchemaFound == fsLog[CHOOSE k \in Accesses("open", SCHEMA_FILE) : TRUE].found

(* The schema file states from which no schema can be loaded. *)
SchemaUnloadable == {Absent, Denied, Undecodable, Text(SchemaUnterminated)}
SchemaLoadFailed == SchemaOpened /\ SchemaFound \in SchemaUnloadable
SchemaLoadedOk == SchemaOpened /\ SchemaFound \notin SchemaUnloadable

MalformedTexts == {TextTrailingComma}

(* The documents each schema rejects. *)
Violates(schemaText, text) ==
  schemaText = SchemaRegistry /\ text \in {TextNumber, TextEmpty}

(* The result kind the specification gives a target that exists, by the    *)
(* first stage that fails: read, parse, validate.                          *)
ExpectedKind(schemaFound, found) ==
  IF found.st # "text" THEN "OtherError"
  ELSE IF found.text \in MalformedTexts THEN "ParseError"
  ELSE IF schemaFound.text = SchemaBadType THEN "OtherError"
  ELSE IF Violates(schemaFound.text, found.text) THEN "SchemaViolation"
  ELSE "Passed"

Kind(r) ==
  IF r[3] = MsgPassed THEN "Passed"
  ELSE IF r[3] = MsgMissing THEN "Missing"
  ELSE IF r[3][1] = PrefixValidationFailed THEN "SchemaViolation"
  ELSE IF r[3][1] = PrefixParseError THEN "ParseError"
  ELSE IF r[3][1] = PrefixError THEN "OtherError"
  ELSE "Unknown"

ValidatesSuccessfully(i) ==
  /\ Checked(i) /\ ExistsFound(i) = Present
  /\ Opened(i) /\ ExpectedKind(SchemaFound, OpenFound(i)) = "Passed"

ReporterRan == retval # -1
ClosingBanners ==
  {k \in DOMAIN output : output[k] \in {MsgAllPassed, MsgSomeFailed}}
ResultLines == {k \in DOMAIN output : output[k][1] \in {"v", "x"}}

----------------------------------------------------------------------------
(* C1: the exit status is 0 when every target file validates successfully  *)
(* and 1 when the schema cannot be loaded or any target is missing or      *)
(* fails; a finished run has no other status.                              *)
C1_ExitStatus ==
  /\ exitStatus \in {-1, 0, 1}
  /\ pc = "exit" =>
       /\ exitStatus \in {0, 1}
       /\ exitStatus = 0 <=>
            (SchemaLoadedOk /\ \A i \in Files : ValidatesSuccessfully(i))
  /\ exitStatus # -1 => pc \in {"exit", "crashed"}

C1_Witness ==
  /\ pc = "exit" /\ exitStatus = 0
  /\ SchemaFound = Text(SchemaRegistry)
  /\ \A i \in Files : OpenFound(i) = Text(TextValid)

(* C2: when load_schema fails the run prints the error and exits with 1 at *)
(* once: no target is checked, opened or validated, no result is collected *)
(* and neither a result line nor a closing banner is printed.              *)
C2_SchemaLoadFatal ==
  SchemaLoadFailed =>
    /\ pc = "exit" /\ exitStatus = 1
    /\ Len(fsLog) = 1
    /\ results = <<>>
    /\ ~ReporterRan
    /\ output = <<Banner, Title, Banner, output[4]>>
    /\ output[4][1] = PrefixSchemaFailed
    /\ ResultLines = {} /\ ClosingBanners = {}

C2_Witness ==
  /\ pc = "exit" /\ SchemaFound = Text(SchemaUnterminated)
  /\ output[4] = <<PrefixSchemaFailed, "Expecting value", "col 5">>

(* C3: once the schema has loaded and main is at the report, results holds *)
(* exactly one entry per name of MIRROR_FILES, the i-th for the i-th name. *)
C3_OneResultPerFile ==
  (SchemaLoadedOk /\ (pc = "report" \/ ReporterRan)) =>
    /\ Len(results) = Len(MIRROR_FILES)
    /\ \A i \in Files : results[i][1] = MIRROR_FILES[i]

C3_Witness ==
  /\ pc = "report"
  /\ Kind(results[1]) = "Missing" /\ Kind(results[2]) = "ParseError"
  /\ Kind(results[3]) = "SchemaViolation" /\ Kind(results[4]) = "OtherError"
  /\ Kind(results[5]) = "Passed"

(* C5: a target absent at the existence check gets the result Missing      *)
(* (failure, "file does not exist"), validate_file is not called for it,   *)
(* nothing is raised, the loop goes on to the next file and the run ends   *)
(* with status 1.                                                          *)
C5_MissingFile ==
  \A i \in Files :
    (Checked(i) /\ ExistsFound(i) = Absent) =>
      /\ Len(results) >= i
      /\ results[i] = <<MIRROR_FILES[i], FALSE, MsgMissing>>
      /\ ~Opened(i)
      /\ pc # "crashed"
      /\ idx > i
      /\ pc = "loop" => idx = Len(results) + 1
      /\ pc \in {"report", "exit"} =>
           \A j \in Files : Checked(j) /\ Len(results) >= j
      /\ pc = "exit" => exitStatus = 1

C5_Witness ==
  /\ pc = "exit" /\ exitStatus = 1 /\ ReporterRan
  /\ ExistsFound(2) = Absent
  /\ \A i \in Files \ {2} : Kind(results[i]) = "Passed"

(* C8: when the reporter has run there is exactly one closing banner; it   *)
(* states success exactly if every collected result is Passed, and main    *)
(* returns 0 with the success banner and 1 with the failure banner.        *)
C8_ClosingBanner ==
  /\ ReporterRan =>
       /\ Cardinality(ClosingBanners) = 1
       /\ output[Len(output)] \in {MsgAllPassed, MsgSomeFailed}
       /\ output[Len(output)] = MsgAllPassed <=>
            \A i \in DOMAIN results : Kind(results[i]) = "Passed"
       /\ retval = 0 <=> output[Len(output)] = MsgAllPassed
       /\ retval = 1 <=> output[Len(output)] = MsgSomeFailed
  /\ ~ReporterRan => ClosingBanners = {}

C8_Witness ==
  /\ ReporterRan /\ retval = 1 /\ output[Len(output)] = MsgSomeFailed
  /\ \A i \in 1..4 : Kind(results[i]) = "Passed"
  /\ Kind(results[5]) = "SchemaViolation"

(* C4: the result recorded for a target is a function of the loaded schema *)
(* and of what the run found of that target alone; two targets found in    *)
(* the same state get the same result; an iteration leaves the results of  *)
(* earlier targets as they are, and a failed target never keeps a later    *)
(* one from being processed.                                               *)
ResultDetermined(i) ==
  /\ Checked(i)
  /\ Kind(results[i]) =
       (IF ExistsFound(i) = Absent THEN "Missing"
        ELSE ExpectedKind(SchemaFound, OpenFound(i)))
  /\ results[i][2] = (Kind(results[i]) = "Passed")

SameFinding(i, j) ==
  /\ ExistsFound(i) = ExistsFound(j)
  /\ Opened(i) = Opened(j)
  /\ Opened(i) => OpenFound(i) = OpenFound(j)

C4_State ==
  /\ \A i \in DOMAIN results : ResultDetermined(i)
  /\ \A i, j \in DOMAIN results :
       SameFinding(i, j) =>
         results[i][2] = results[j][2] /\ results[i][3] = results[j][3]
  /\ pc \in {"report", "exit"} /\ SchemaLoadedOk =>
       \A j \in Files : Checked(j) /\ j \in DOMAIN results

C4_Step ==
  /\ Len(results') >= Len(results)
  /\ SubSeq(results', 1, Len(results)) = results
  /\ (pc = "loop" /\ pc' = "loop") => idx' = idx + 1

C6_Classification ==
  \A i \in DOMAIN results :
    Opened(i) =>
      /\ Kind(results[i]) = ExpectedKind(SchemaFound, OpenFound(i))
      /\ (OpenFound(i).st = "text" /\ OpenFound(i).text \in MalformedTexts)
           => Kind(results[i]) = "ParseError"
      /\ Kind(results[i]) = "Passed" <=>
           /\ OpenFound(i).st = "text"
           /\ OpenFound(i).text \notin MalformedTexts
           /\ SchemaFound.text # SchemaBadType
           /\ ~Violates(SchemaFound.text, OpenFound(i).text)
      /\ results[i][2] <=> Kind(results[i]) = "Passed"

C6_Witness ==
  /\ Len(results) = 4 /\ \A i \in 1..4 : Opened(i)
  /\ SchemaFound = Text(SchemaBadType)
  /\ OpenFound(1) = Text(TextTrailingComma) /\ Kind(results[1]) = "ParseError"
  /\ OpenFound(2) = Text(TextValid) /\ Kind(results[2]) = "OtherError"
  /\ OpenFound(3) = Undecodable /\ Kind(results[3]) = "OtherError"
  /\ OpenFound(4) = Denied /\ Kind(results[4]) = "OtherError"

(* C7: no failure of the per-file loop leaves main unhandled, so a run     *)
(* that has loaded the schema reaches the report; only a schema-load       *)
(* failure ends the run early, caught, printed and turned into status 1.   *)
C7_State ==
  /\ pc # "crashed"
  /\ (pc = "exit" /\ ~ReporterRan) =>
       /\ SchemaLoadFailed
       /\ output[Len(output)][1] = PrefixSchemaFailed
       /\ exitStatus = 1
  /\ SchemaLoadedOk => \A i \in Files : Checked(i) => i \in DOMAIN results

C9_Step ==
  \/ pc = "start" /\ pc' = "loop" /\ SchemaLoadedOk'
  \/ pc = "start" /\ pc' = "exit" /\ SchemaLoadFailed' /\ exitStatus' = 1
  \/ pc = "loop" /\ pc' = "loop" /\ idx' = idx + 1
  \/ pc = "loop" /\ pc' = "report" /\ idx = Len(MIRROR_FILES)
  \/ pc = "report" /\ pc' = "exit" /\ exitStatus' \in {0, 1}

C9_State ==
  /\ Cardinality(Accesses("open", SCHEMA_FILE)) <= 1
  /\ fsLog # <<>> => fsLog[1] = Access("open", SCHEMA_FILE, SchemaFound)
  /\ \A i \in Files :
       /\ Cardinality(Accesses("exists", MIRROR_FILES[i])) <= 1
       /\ Cardinality(Accesses("open", MIRROR_FILES[i])) <= 1
  /\ ResultLines # {} =>
       /\ Len(results) = Len(MIRROR_FILES)
       /\ \A i \in Files : Checked(i)

C10_MissingOnlyFromCheck ==
  \A i \in DOMAIN results :
    /\ Kind(results[i]) = "Missing" <=> ExistsFound(i) = Absent
    /\ ExistsFound(i) = Present =>
         /\ Opened(i)
         /\ Kind(results[i]) \in
              {"Passed", "SchemaViolation", "ParseError", "OtherError"}
         /\ OpenFound(i) \in {Absent, Denied} =>
              Kind(results[i]) = "OtherError"

C10_Witness ==
  /\ Len(results) >= 2
  /\ ExistsFound(1) = Present /\ OpenFound(1) = Absent
  /\ Kind(results[1]) = "OtherError"
  /\ ExistsFound(2) = Absent /\ Kind(results[2]) = "Missing"

====
